---- MODULE Spec2Model ----
(***************************************************************************)
(* Placeholder resolution engine of ImpactBoard (placeholderEngine.ts):    *)
(* resolvePlaceholders and its helpers, together with the storage queries  *)
(* it reads (aggregated_stats, repo_aggregated_stats, user_privacy, the    *)
(* computed organisation summary).                                         *)
(*                                                                         *)
(* A document is a sequence of tokens.  A token is either a run of plain   *)
(* text or one candidate placeholder, kept in its syntactic parts          *)
(* (entity, selector, field, raw option list).  Two placeholder tokens are *)
(* the same text exactly when all their parts are equal, so the            *)
(* substring search of String.prototype.replace is a search for the first  *)
(* equal token.                                                            *)
(***************************************************************************)
EXTENDS Integers, Sequences, FiniteSets, TLC

\* ------------------------------------------------------------------ bounds
NumUsers == 4
MaxArg == 3
MaxDoc == 3
MaxTopMax == 2
MaxCap == 2
MaxEnvDoc == 2
MaxUpdates == 1
MaxPasses == 2

\* ------------------------------------------------------------- data model
Windows == {"7d", "30d", "90d", "all-time"}

Login(u) == "user" \o ToString(u)

Score(u) == 100 - 10 * (u \div 2)

\* one row of aggregated_stats, as mapped by mapAggregatedStats; dates are
\* ISO strings of one month, kept as their day number (localeCompare on
\* such strings is the comparison of the day numbers)
AggregatedStats(u) ==
  [userId |-> u,
   userLogin |-> Login(u),
   weightedScore |-> Score(u),
   totalCommits |-> 10 * u,
   totalPullRequestsMerged |-> u,
   totalLinesAdded |-> 100 * u,
   currentStreak |-> u - 1,
   rank |-> IF Score(u) >= 100 THEN "Silver" ELSE "Bronze",
   startDate |-> 10 + (u % 2),
   endDate |-> 20 + (u \div 3)]

RepoAggregatedStats(r) ==
  [repoId |-> r,
   repoName |-> "repo" \o ToString(r),
   totalCommits |-> 50 - 10 * r,
   totalPullRequestsMerged |-> r,
   totalIssues |-> r + 1,
   totalLinesAdded |-> 10 * r,
   uniqueContributors |-> r,
   status |-> "active"]

Txt(str) ==
  [k |-> "txt", entity |-> "", selector |-> "", field |-> "", options |-> << >>, s |-> str]

Placeholder(e, sel, f, opts) ==
  [k |-> "ph", entity |-> e, selector |-> sel, field |-> f, options |-> opts, s |-> ""]

NoUser == 0

\* ---------------------------------------------------------------- storage
\* SELECT * FROM aggregated_stats WHERE org_id = $1 AND period = $2
\* ORDER BY weighted_score DESC: every list the query can return for the
\* rows of a set of users (rows of equal score in either order)
IsScoreOrdered(rows) ==
  \A i \in 1..Len(rows) : \A j \in 1..Len(rows) :
    i < j => rows[i].weightedScore >= rows[j].weightedScore

AggregatesGetByOrg ==
  UNION { { rows \in [1..Cardinality(S) -> {AggregatedStats(u) : u \in S}] :
              /\ \A i \in 1..Len(rows) : \A j \in 1..Len(rows) :
                   i # j => rows[i] # rows[j]
              /\ IsScoreOrdered(rows) }
          : S \in SUBSET (1..NumUsers) }

\* SELECT * FROM repo_aggregated_stats ... ORDER BY total_commits DESC
RepoAggregatesGetByOrg == { << >>, <<RepoAggregatedStats(1), RepoAggregatedStats(2)>> }

RECURSIVE SumOver(_, _)
SumOver(rows, fld) ==
  IF rows = << >> THEN 0 ELSE rows[1][fld] + SumOver(Tail(rows), fld)

Min(a, b) == IF a < b THEN a ELSE b

\* orgStatsRepo.getSummary: computed from the unfiltered rows of the window
GetSummary(userStats, repoStats) ==
  LET activeUsers == Len(userStats)
      totalCommits == SumOver(userStats, "totalCommits")
      totalPullRequests == SumOver(userStats, "totalPullRequestsMerged")
      totalLinesAdded == SumOver(userStats, "totalLinesAdded")
      totalRepositories == Len(repoStats)
      \* Math.round(i + c/5) = i + floor((2c + 5) / 10) for integers i, c
      healthScore ==
        Min(100,
            (IF activeUsers > 0 THEN 30 ELSE 0)
            + (IF totalCommits > 100 THEN 20 ELSE ((2 * totalCommits + 5) \div 10))
            + (IF totalPullRequests > 10 THEN 20 ELSE totalPullRequests * 2)
            + (IF totalRepositories > 5 THEN 15 ELSE totalRepositories * 3)
            + (IF totalLinesAdded > 1000 THEN 15 ELSE ((2 * totalLinesAdded + 70) \div 140)))
  IN [activeUsers |-> activeUsers,
      totalCommits |-> totalCommits,
      totalPullRequests |-> totalPullRequests,
      totalLinesAdded |-> totalLinesAdded,
      totalRepositories |-> totalRepositories,
      healthScore |-> healthScore]

\* ----------------------------------------------------------------- parser
\* PLACEHOLDER_REGEX, by capture group: the strings of the model's alphabet
\* that each group accepts
EntityGroup == {"USER", "REPO", "ORG", "SVG", "TEAM"}

NumArgs == {ToString(n) : n \in 0..MaxArg}

NameArgs == {Login(u) : u \in 1..NumUsers} \cup {"repo1", "repo2", "ghost"}

SelectorNames ==
  {"TOP", "RANK", "USERNAME", "NEW", "ACTIVE", "NAME",
   "ACTIVE_USERS", "TOTAL_COMMITS", "TOTAL_PRS", "TOTAL_LOC_ADDED", "TOTAL_REPOS",
   "HEALTH_SCORE", "LEADERBOARD", "HEATMAP", "LEADERBOARD_THEMED", "HEATMAP_THEMED",
   "LEADERBOARD_DARK", "HEATMAP_DARK"}

SelectorGroup ==
  SelectorNames
  \cup {n \o "(" \o a \o ")" : n \in SelectorNames, a \in NumArgs \cup NameArgs}

FieldGroup ==
  {"", "username", "commits", "prs", "issues_closed", "issues_open", "loc_added",
   "loc_removed", "streak", "rank", "impact", "repos", "last_active", "ai_summary",
   "name", "issues", "contributors", "status"}

RegexMatches(tok) ==
  /\ tok.k = "ph"
  /\ tok.entity \in EntityGroup
  /\ tok.selector \in SelectorGroup
  /\ tok.field \in FieldGroup

\* parseOptions: the raw option text is kept split at ',' and '=' (each
\* piece trimmed); the first two pieces of a part are key and value
parseOptions(raw) ==
  LET idx == {j \in 1..Len(raw) : Len(raw[j]) >= 1 /\ raw[j][1] # ""}
      keys == {raw[j][1] : j \in idx}
      last(key) == CHOOSE j \in idx :
                     raw[j][1] = key /\ \A j2 \in idx : raw[j2][1] = key => j2 <= j
  IN [key \in keys |-> IF Len(raw[last(key)]) >= 2 THEN raw[last(key)][2] ELSE ""]

PlaceholderMatch(tok) ==
  [full |-> tok,
   entity |-> tok.entity,
   selector |-> tok.selector,
   field |-> tok.field,
   options |-> parseOptions(tok.options)]

RECURSIVE parsePlaceholder(_)
parsePlaceholder(text) ==
  IF text = << >> THEN << >>
  ELSE IF RegexMatches(text[1])
       THEN <<PlaceholderMatch(text[1])>> \o parsePlaceholder(Tail(text))
       ELSE parsePlaceholder(Tail(text))

\* the exec loop of parsePlaceholder on the module-level /g regex: the scan
\* starts at PLACEHOLDER_REGEX.lastIndex (an offset in tokens here)
parsePlaceholderAt(text, from) == parsePlaceholder(SubSeq(text, from + 1, Len(text)))

LastIndexAfterExecNull_Kept(text) == Len(text)

LastIndexAfterExecNull_FirstMatch(text) ==
  IF \E j \in DOMAIN text : RegexMatches(text[j])
  THEN CHOOSE j \in DOMAIN text :
         RegexMatches(text[j]) /\ \A q \in 1..(j - 1) : ~RegexMatches(text[q])
  ELSE 0

\* the loop ends when exec returns null, which sets lastIndex to 0
LastIndexAfterExecNull(text) == 0

Option(options, key) == IF key \in DOMAIN options THEN options[key] ELSE ""

getPeriodFromOptions_Unchecked(options, allowed, def) ==
  LET opt == Option(options, "window")
  IN IF opt # "" THEN opt ELSE def

getPeriodFromOptions(options, allowed, def) ==
  LET opt == Option(options, "window")
  IN IF opt # "" /\ opt \in allowed THEN opt ELSE def

\* ------------------------------------------------- filter, sort and select
applyPrivacyFilter_NoFilter(stats, optedOut) == stats

applyPrivacyFilter(stats, optedOut) ==
  SelectSeq(stats, LAMBDA st : st.userId \notin optedOut)

\* Array.prototype.sort is stable: element j goes behind every element
\* that the comparator puts first and every earlier element it ties with
SortByScoreDesc(stats) ==
  LET n == Len(stats)
      pos(j) == 1 + Cardinality({i \in 1..n :
                    \/ stats[i].weightedScore > stats[j].weightedScore
                    \/ stats[i].weightedScore = stats[j].weightedScore /\ i < j})
  IN [r \in 1..n |-> stats[CHOOSE j \in 1..n : pos(j) = r]]

SortByStartDateDesc(stats) ==
  LET n == Len(stats)
      pos(j) == 1 + Cardinality({i \in 1..n :
                    \/ stats[i].startDate > stats[j].startDate
                    \/ stats[i].startDate = stats[j].startDate /\ i < j})
  IN [r \in 1..n |-> stats[CHOOSE j \in 1..n : pos(j) = r]]

SortByEndDateDesc(stats) ==
  LET n == Len(stats)
      pos(j) == 1 + Cardinality({i \in 1..n :
                    \/ stats[i].endDate > stats[j].endDate
                    \/ stats[i].endDate = stats[j].endDate /\ i < j})
  IN [r \in 1..n |-> stats[CHOOSE j \in 1..n : pos(j) = r]]

SortByCommitsDesc(stats) ==
  LET n == Len(stats)
      pos(j) == 1 + Cardinality({i \in 1..n :
                    \/ stats[i].totalCommits > stats[j].totalCommits
                    \/ stats[i].totalCommits = stats[j].totalCommits /\ i < j})
  IN [r \in 1..n |-> stats[CHOOSE j \in 1..n : pos(j) = r]]

NoMatch == 0 - 1

\* /^NAME\((\d+)\)$/.exec(selector) followed by parseInt of the group
NumSelector(name, selector) ==
  IF \E n \in 0..MaxArg : selector = name \o "(" \o ToString(n) \o ")"
  THEN CHOOSE n \in 0..MaxArg : selector = name \o "(" \o ToString(n) \o ")"
  ELSE NoMatch

\* /^NAME\(([^)]+)\)$/.exec(selector): the set holding the captured text
StrSelector(name, selector) ==
  {a \in NumArgs \cup NameArgs : selector = name \o "(" \o a \o ")"}

NotFound == [userId |-> NoUser]

At_OffByOne(stats, n) == IF n >= 0 /\ n < Len(stats) THEN stats[n + 1] ELSE NotFound

At(stats, n) == IF n - 1 >= 0 /\ n - 1 < Len(stats) THEN stats[n] ELSE NotFound

Find(stats, fld, val) ==
  IF \E j \in 1..Len(stats) : stats[j][fld] = val
  THEN stats[CHOOSE j \in 1..Len(stats) :
               stats[j][fld] = val /\ \A j2 \in 1..(j - 1) : stats[j2][fld] # val]
  ELSE NotFound

selectUser(stats, selector) ==
  IF NumSelector("TOP", selector) # NoMatch
    THEN At(stats, NumSelector("TOP", selector))
  ELSE IF NumSelector("RANK", selector) # NoMatch
    THEN At(stats, NumSelector("RANK", selector))
  ELSE IF StrSelector("USERNAME", selector) # {}
    THEN Find(stats, "userLogin", CHOOSE a \in StrSelector("USERNAME", selector) : TRUE)
  ELSE IF NumSelector("NEW", selector) # NoMatch
    THEN At(SortByStartDateDesc(stats), NumSelector("NEW", selector))
  ELSE IF NumSelector("ACTIVE", selector) # NoMatch
    THEN At(SortByEndDateDesc(stats), NumSelector("ACTIVE", selector))
  ELSE NotFound

NoRepo == [repoId |-> 0]

RepoAt(stats, n) == IF n - 1 >= 0 /\ n - 1 < Len(stats) THEN stats[n] ELSE NoRepo

selectRepo(stats, selector) ==
  IF NumSelector("TOP", selector) # NoMatch
    THEN RepoAt(stats, NumSelector("TOP", selector))
  ELSE IF NumSelector("RANK", selector) # NoMatch
    THEN RepoAt(stats, NumSelector("RANK", selector))
  ELSE IF StrSelector("NAME", selector) # {}
    THEN LET name == CHOOSE a \in StrSelector("NAME", selector) : TRUE
         IN IF \E j \in 1..Len(stats) : stats[j].repoName = name
            THEN stats[CHOOSE j \in 1..Len(stats) :
                   stats[j].repoName = name
                   /\ \A j2 \in 1..(j - 1) : stats[j2].repoName # name]
            ELSE NoRepo
  ELSE NoRepo

\* --------------------------------------------------------- field resolvers
DateStr(d) == "2026-10-" \o ToString(d)

resolveUserField(field, stat) ==
  CASE field = "username" -> "@" \o stat.userLogin
    [] field = "commits" -> ToString(stat.totalCommits)
    [] field = "prs" -> ToString(stat.totalPullRequestsMerged)
    [] field = "loc_added" -> ToString(stat.totalLinesAdded)
    [] field = "streak" -> ToString(stat.currentStreak)
    [] field = "rank" -> stat.rank
    [] field = "impact" -> ToString(stat.weightedScore)
    [] field = "last_active" -> DateStr(stat.endDate)
    [] OTHER -> ""

resolveRepoField(field, stat) ==
  CASE field = "name" -> stat.repoName
    [] field = "commits" -> ToString(stat.totalCommits)
    [] field = "prs" -> ToString(stat.totalPullRequestsMerged)
    [] field = "issues" -> ToString(stat.totalIssues)
    [] field = "loc_added" -> ToString(stat.totalLinesAdded)
    [] field = "contributors" -> ToString(stat.uniqueContributors)
    [] field = "status" -> stat.status
    [] OTHER -> ""

resolveOrgField(field, summary) ==
  CASE field = "active_users" -> ToString(summary.activeUsers)
    [] field = "total_commits" -> ToString(summary.totalCommits)
    [] field = "total_prs" -> ToString(summary.totalPullRequests)
    [] field = "total_loc_added" -> ToString(summary.totalLinesAdded)
    [] field = "total_repos" -> ToString(summary.totalRepositories)
    [] field = "health_score" -> ToString(summary.healthScore)
    [] OTHER -> ""

\* String.prototype.toLowerCase on the selector names of the alphabet
ToLowerCase(str) ==
  CASE str = "ACTIVE_USERS" -> "active_users"
    [] str = "TOTAL_COMMITS" -> "total_commits"
    [] str = "TOTAL_PRS" -> "total_prs"
    [] str = "TOTAL_LOC_ADDED" -> "total_loc_added"
    [] str = "TOTAL_REPOS" -> "total_repos"
    [] str = "HEALTH_SCORE" -> "health_score"
    [] str = "LEADERBOARD" -> "leaderboard"
    [] str = "HEATMAP" -> "heatmap"
    [] str = "LEADERBOARD_THEMED" -> "leaderboard_themed"
    [] str = "HEATMAP_THEMED" -> "heatmap_themed"
    [] str = "LEADERBOARD_DARK" -> "leaderboard_dark"
    [] str = "HEATMAP_DARK" -> "heatmap_dark"
    [] OTHER -> "?"

\* ------------------------------------------------------------- formatValue
MaxValue == 2000

NaN == 0 - 1

\* parseInt(String(value), 10) on the values the field resolvers produce
ParseInt(value) ==
  IF \E n \in 0..MaxValue : ToString(n) = value
  THEN CHOOSE n \in 0..MaxValue : ToString(n) = value
  ELSE NaN

\* the emoji U+1F525
FireMarker == "FIRE"

\* the character U+0060
Backtick == "<U+0060>"

Pad3(n) ==
  IF n < 10 THEN "00" \o ToString(n)
  ELSE IF n < 100 THEN "0" \o ToString(n)
  ELSE ToString(n)

\* (num / d).toFixed(1), the tenth rounded half up
ToFixed1(num, d) ==
  LET tenths == (num * 10 + d \div 2) \div d
  IN ToString(tenths \div 10) \o "." \o ToString(tenths % 10)

\* num.toLocaleString() in the en-US locale, below one million
ToLocaleString(num) ==
  IF num < 1000 THEN ToString(num)
  ELSE ToString(num \div 1000) \o "," \o Pad3(num % 1000)

formatValue(value, format) ==
  LET num == ParseInt(value)
  IN IF num = NaN THEN value
     ELSE CASE format = "compact" ->
                 IF num >= 1000000 THEN ToFixed1(num, 1000000) \o "M"
                 ELSE IF num >= 1000 THEN ToFixed1(num, 1000) \o "K"
                 ELSE ToString(num)
            [] format = "number" -> ToLocaleString(num)
            [] format = "badge" -> Backtick \o ToString(num) \o Backtick
            [] format = "fire" ->
                 IF num > 0 THEN FireMarker \o " " \o ToString(num) ELSE ToString(num)
            [] OTHER -> value

\* --------------------------------------------------- String.prototype.replace
IndexOf(text, tok) ==
  IF \E j \in 1..Len(text) : text[j] = tok
  THEN CHOOSE j \in 1..Len(text) : text[j] = tok /\ \A j2 \in 1..(j - 1) : text[j2] # tok
  ELSE 0

\* GetSubstitution of a replacement string (patterns $$, $&, $` and $')
GetSubstitution(repl, matched, before, after) ==
  CASE repl = "" -> << >>
    [] repl = "$$" -> <<Txt("$")>>
    [] repl = "$&" -> <<matched>>
    [] repl = "$`" -> before
    [] repl = "$'" -> after
    [] OTHER -> <<Txt(repl)>>

\* two runs of plain text whose concatenation is the text of a placeholder
PlaceholderPrefix == "{{IMPACTBOARD:ORG."

PlaceholderSuffix == "ACTIVE_USERS}}"

Joined == Placeholder("ORG", "ACTIVE_USERS", "", << >>)

\* concatenation of two texts: a text that ends in the prefix followed by
\* one that starts with the suffix holds the placeholder at the seam
Concat(a, b) ==
  IF /\ a # << >> /\ b # << >>
     /\ a[Len(a)] = Txt(PlaceholderPrefix) /\ b[1] = Txt(PlaceholderSuffix)
  THEN SubSeq(a, 1, Len(a) - 1) \o <<Joined>> \o Tail(b)
  ELSE a \o b

\* text.replace(tok, repl) with a string pattern: first occurrence only
Replace(text, tok, repl) ==
  LET j == IndexOf(text, tok)
  IN IF j = 0 THEN text
     ELSE LET before == SubSeq(text, 1, j - 1)
              after == SubSeq(text, j + 1, Len(text))
          IN Concat(Concat(before, GetSubstitution(repl, tok, before, after)), after)

\* ------------------------------------------------------------------ policy
\* yaml.readme ?? { ...defaults } of resolvePlaceholders
DefaultReadme ==
  [allow |-> [entities |-> {"USER", "REPO", "ORG"},
              user_selectors |-> [top_max |-> 5, allow_username |-> TRUE],
              fields |-> {"username", "commits", "prs", "streak", "loc_added", "impact"},
              max_placeholders |-> 100]]

ReadmeConfig(y) == IF y.hasReadme THEN y.readme ELSE DefaultReadme

\* yaml.privacy?.public_users?.[login]?.hide
Hide(y, login) ==
  IF login \in DOMAIN y.privacy.public_users THEN y.privacy.public_users[login] ELSE {}

Slice_NoCap(matches, cap) == matches

\* matches.slice(0, maxPlaceholders)
Slice(matches, cap) == SubSeq(matches, 1, Min(cap, Len(matches)))

\* --------------------------------------------- one iteration of the loop
Fallback(p) == Option(p.options, "fallback")

\* the SVG branch: the replacement chosen for an SVG placeholder
SvgDecision(p, ctx) ==
  LET svgType == ToLowerCase(p.selector)
      paths == ctx.svgPaths
      ref(path) == "https://raw.githubusercontent.com/org/.github/main/" \o path
      themed(light, dark) == "<picture>" \o ref(dark) \o "|" \o ref(light) \o "</picture>"
  IN IF ~ctx.hasSvgPaths THEN [why |-> "svg_fallback", selected |-> NoUser, repl |-> Fallback(p)]
     ELSE IF svgType = "leaderboard_themed" /\ paths.leaderboard # "" /\ paths.leaderboardDark # ""
       THEN [why |-> "svg", selected |-> NoUser, repl |-> themed(paths.leaderboard, paths.leaderboardDark)]
     ELSE IF svgType = "heatmap_themed" /\ paths.heatmap # "" /\ paths.heatmapDark # ""
       THEN [why |-> "svg", selected |-> NoUser, repl |-> themed(paths.heatmap, paths.heatmapDark)]
     ELSE IF svgType = "leaderboard" /\ paths.leaderboard # ""
       THEN [why |-> "svg", selected |-> NoUser, repl |-> ref(paths.leaderboard)]
     ELSE IF svgType = "heatmap" /\ paths.heatmap # ""
       THEN [why |-> "svg", selected |-> NoUser, repl |-> ref(paths.heatmap)]
     ELSE IF svgType = "leaderboard_dark" /\ paths.leaderboardDark # ""
       THEN [why |-> "svg", selected |-> NoUser, repl |-> ref(paths.leaderboardDark)]
     ELSE IF svgType = "heatmap_dark" /\ paths.heatmapDark # ""
       THEN [why |-> "svg", selected |-> NoUser, repl |-> ref(paths.heatmapDark)]
     ELSE [why |-> "svg_fallback", selected |-> NoUser, repl |-> Fallback(p)]

\* the USER branch, from the fetched rows to the replacement
UserDecision(p, statsRaw, optedOut, y) ==
  LET stats == SortByScoreDesc(applyPrivacyFilter(statsRaw, optedOut))
      topMax == ReadmeConfig(y).allow.user_selectors.top_max
      n == NumSelector("TOP", p.selector)
      selected == selectUser(stats, p.selector)
      value == resolveUserField(p.field, selected)
  IN IF n # NoMatch /\ n > topMax
       THEN [why |-> "top_max", selected |-> NoUser, repl |-> Fallback(p)]
     ELSE IF selected.userId = NoUser
       THEN [why |-> "not_found", selected |-> NoUser, repl |-> Fallback(p)]
     ELSE IF p.field \in Hide(y, selected.userLogin)
       THEN [why |-> "hidden", selected |-> selected.userId, repl |-> Fallback(p)]
     ELSE IF value # ""
       THEN [why |-> "value", selected |-> selected.userId, repl |-> value]
     ELSE [why |-> "empty_field", selected |-> selected.userId, repl |-> Fallback(p)]

\* the REPO branch
RepoDecision(p, repoStats) ==
  LET sorted == SortByCommitsDesc(repoStats)
      selected == selectRepo(sorted, p.selector)
      value == resolveRepoField(p.field, selected)
  IN IF selected.repoId = 0
       THEN [why |-> "not_found", selected |-> NoUser, repl |-> Fallback(p)]
     ELSE IF value # ""
       THEN [why |-> "value", selected |-> NoUser, repl |-> value]
     ELSE [why |-> "empty_field", selected |-> NoUser, repl |-> Fallback(p)]

\* the ORG branch: the selector is the field
OrgDecision(p, summary) ==
  LET field == ToLowerCase(p.selector)
      value == resolveOrgField(field, summary)
  IN IF value # ""
       THEN [why |-> "value", selected |-> NoUser, repl |-> value]
     ELSE [why |-> "empty_field", selected |-> NoUser, repl |-> Fallback(p)]

EntityAllowed(p, y) == p.entity \in ReadmeConfig(y).allow.entities

Window(p, y) ==
  getPeriodFromOptions(p.options, y.data.windows.allowed, y.data.windows.default)

\* what one iteration of the loop decides for placeholder p
Decision(p, y, ctx, aggs, repos, optedOut) ==
  IF p.entity = "SVG" THEN SvgDecision(p, ctx)
  ELSE IF ~EntityAllowed(p, y)
    THEN [why |-> "not_allowed", selected |-> NoUser, repl |-> ""]
  ELSE IF p.entity = "USER" THEN UserDecision(p, aggs[Window(p, y)], optedOut, y)
  ELSE IF p.entity = "REPO" THEN RepoDecision(p, repos)
  ELSE OrgDecision(p, GetSummary(aggs[Window(p, y)], repos))

Apply_FallbackWhenNotAllowed(res, p, d) ==
  Replace(res, p.full, IF d.why = "not_allowed" THEN Fallback(p) ELSE d.repl)

\* the working text after the iteration
Apply(res, p, d) ==
  IF d.why = "not_allowed" THEN res ELSE Replace(res, p.full, d.repl)

\* the tokens the iteration puts in the place of the occurrence
Substituted(res, p, d) ==
  LET j == IndexOf(res, p.full)
  IN IF d.why = "not_allowed" \/ j = 0 THEN << >>
     ELSE GetSubstitution(d.repl, p.full, SubSeq(res, 1, j - 1), SubSeq(res, j + 1, Len(res)))

ModeAllows_Template(y) == y.mode \in {"full", "template"}

\* if (yaml.mode !== 'full') return readmeContent
ModeAllows(y) == y.mode = "full"

RECURSIVE ResolveEach(_, _, _, _, _, _, _)
ResolveEach(res, ps, y, ctx, aggs, repos, optedOut) ==
  IF ps = << >> THEN res
  ELSE ResolveEach(Apply(res, ps[1], Decision(ps[1], y, ctx, aggs, repos, optedOut)),
                   Tail(ps), y, ctx, aggs, repos, optedOut)

\* the text a whole call returns for given inputs and store contents
resolvePlaceholders(content, y, ctx, aggs, repos, privacy) ==
  IF ~ModeAllows(y) THEN content
  ELSE LET matches == parsePlaceholder(content)
       IN IF matches = << >> THEN content
          ELSE ResolveEach(content, Slice(matches, ReadmeConfig(y).allow.max_placeholders),
                           y, ctx, aggs, repos, privacy)

\* ------------------------------------------------------------------- state
VARIABLES
  pc,             \* position of the call: "start", "loop", "done"
  yaml,           \* the validated impactboard.yml of the organisation
  readmeContent,  \* the text given to resolvePlaceholders
  context,        \* the asset context (svgPaths) given by the caller
  aggregates,     \* aggregated_stats as getByOrg returns it, per window
  repoAggregates, \* repo_aggregated_stats as getByOrg returns it
  userPrivacy,    \* user ids with opted_out = true in user_privacy
  optedOutIds,    \* the set loaded by the pass
  limited,        \* the parsed occurrences within the cap
  i,              \* index in limited of the next occurrence
  result,         \* the working copy of the text
  log,            \* per processed occurrence: what the iteration decided
  lastIndex,      \* PLACEHOLDER_REGEX.lastIndex (module-level state)
  fetches,        \* the provider queries issued by the call so far
  returned,       \* the texts returned by the calls completed so far
  updates,        \* number of writes to the store by other processes
  caller,         \* position of ReadmePublisher.handleYamlMode around the call
  upserts,        \* the contents handed to upsertReadmeFile so far
  held,           \* per query: the array the provider returned, then and now
  otherPc,        \* position of a pass for another organisation
  otherMatches,   \* what the parser returned to that pass
  installation,   \* updateReadme: the installation row and its settings
  yamlFile,       \* updateReadme: what .github/impactboard.yml holds
  config,         \* updateReadme: what loadImpactYamlConfig returned
  profileReadme,  \* updateReadme: the content of the README file
  writes,         \* updateReadme: the files created or updated by the run
  upc,            \* updateReadme: position of the run
  ret,            \* updateReadme: the value returned
  processedEvents,\* webhook: keys of the module-level idempotency map
  deliveries,     \* webhook: per request its headers and position
  handled,        \* webhook: per key how many times an event handler ran
  streaks,        \* streak: the stored row of the user, if any
  clock,          \* streak: the current day
  calls           \* streak: per updateStreak call its position and locals

vars ==
  <<pc, yaml, readmeContent, context, aggregates, repoAggregates, userPrivacy,
    optedOutIds, limited, i, result, log, lastIndex, fetches, returned, updates,
    caller, upserts, held, otherPc, otherMatches, installation, yamlFile, config,
    profileReadme, writes, upc, ret, processedEvents, deliveries, handled, streaks,
    clock, calls>>

\* the state of the other components, which a resolution pass leaves alone
Updater == <<installation, yamlFile, config, profileReadme, writes, upc, ret>>

Webhook == <<processedEvents, deliveries, handled>>

Streak == <<streaks, clock, calls>>

Rest == <<otherPc, otherMatches, Updater, Webhook, Streak>>

NoConfig == [mode |-> "none"]

UpdaterIdle ==
  /\ installation = [enableReadmeUpdates |-> FALSE, found |-> FALSE]
  /\ yamlFile = [kind |-> "missing", mode |-> "none", placeholder |-> FALSE,
                 failOnInvalidConfig |-> FALSE]
  /\ config = NoConfig
  /\ profileReadme = "absent"
  /\ writes = {}
  /\ upc = "idle"
  /\ ret = FALSE

WebhookIdle ==
  /\ processedEvents = {}
  /\ deliveries = << >>
  /\ handled = << >>

\* repository.streaks.get found no row
NoStreak ==
  [exists |-> FALSE, currentStreak |-> 0, longestStreak |-> 0, lastContributionDate |-> 0,
   streakStartDate |-> 0, longestStreakStartDate |-> 0, longestStreakEndDate |-> 0]

StreakIdle ==
  /\ streaks = NoStreak
  /\ clock = 1
  /\ calls = << >>

OtherOrgIdle ==
  /\ otherPc = "idle"
  /\ otherMatches = << >>

\* ------------------------------------------------------------------ inputs
Yaml(mode, hasReadme, entities, topMax, cap, publicUsers) ==
  [mode |-> mode,
   hasReadme |-> hasReadme,
   readme |-> [allow |-> [entities |-> entities,
                          user_selectors |-> [top_max |-> topMax, allow_username |-> TRUE],
                          fields |-> {"username", "commits", "prs", "streak", "loc_added", "impact"},
                          max_placeholders |-> cap]],
   data |-> [windows |-> [default |-> "30d", allowed |-> {"7d", "30d"}]],
   privacy |-> [public_users |-> publicUsers]]

NoRules == [l \in {} |-> {}]

\* privacy.public_users: user2 hides rank and streak
HideRules == [l \in {Login(2)} |-> {"rank", "streak"}]

NoContext ==
  [hasSvgPaths |-> FALSE,
   svgPaths |-> [leaderboard |-> "", leaderboardDark |-> "", heatmap |-> "", heatmapDark |-> ""]]

SvgContext ==
  [hasSvgPaths |-> TRUE,
   svgPaths |-> [leaderboard |-> "lb.svg", leaderboardDark |-> "lb-dark.svg",
                 heatmap |-> "", heatmapDark |-> ""]]

Fb(str) == << <<"fallback", str>> >>

NumSelectors(name, lo) == {name \o "(" \o ToString(n) \o ")" : n \in lo..MaxArg}

\* values written after "window=": allowed, known but not allowed, unknown
\* and empty
WindowOptions == {"7d", "30d", "90d", "all", ""}

\* USER placeholders: every selector with the username field, and three
\* selectors with the other fields and a fallback that is a replacement
\* pattern
UserSelectors ==
  NumSelectors("TOP", 0) \cup NumSelectors("RANK", 1)
  \cup {"NEW(1)", "ACTIVE(1)", "ACTIVE(2)", "USERNAME(user1)", "USERNAME(user2)",
        "USERNAME(ghost)"}

UserPlaceholders ==
  {Placeholder("USER", sel, "username", o) : sel \in UserSelectors, o \in {<< >>, Fb("N/A")}}
  \cup {Placeholder("USER", sel, f, o) :
          sel \in {"TOP(1)", "RANK(2)", "USERNAME(user2)"},
          f \in {"commits", "streak", "rank", "ai_summary"},
          o \in {Fb("N/A"), Fb("$&")}}

OtherPlaceholders ==
  {Placeholder("ORG", "ACTIVE_USERS", "", << >>),
   Placeholder("ORG", "TOTAL_COMMITS", "", Fb("N/A")),
   Placeholder("REPO", "TOP(1)", "name", Fb("N/A")),
   Placeholder("SVG", "LEADERBOARD", "", << >>)}

\* the tokens of the longer documents
DocTokens ==
  {Txt("text"),
   Placeholder("USER", "TOP(1)", "username", << >>),
   Placeholder("USER", "RANK(3)", "commits", Fb("$'")),
   Placeholder("USER", "TOP(3)", "username", Fb("N/A")),
   Placeholder("REPO", "TOP(1)", "name", Fb("N/A")),
   Placeholder("ORG", "TOTAL_COMMITS", "", << >>),
   Placeholder("SVG", "LEADERBOARD", "", Fb("N/A"))}

Docs == UNION {[1..n -> DocTokens] : n \in 1..MaxDoc}

AllRows == <<AggregatedStats(1), AggregatedStats(2), AggregatedStats(3)>>

PerWindow(rows) ==
  [w \in Windows |-> IF w = "30d" THEN rows
                     ELSE IF w = "7d" /\ rows # << >> THEN Tail(rows)
                     ELSE << >>]

\* one placeholder between two runs of text, over every list of rows and
\* every opted-out set of the users who have a row (the filter compares the
\* opted-out ids with the rows' userId only)
InitSelect ==
  /\ \E rows \in AggregatesGetByOrg :
       /\ aggregates = PerWindow(rows)
       /\ userPrivacy \in SUBSET {rows[k].userId : k \in 1..Len(rows)}
  /\ \E ph \in UserPlaceholders \cup OtherPlaceholders :
       readmeContent = <<Txt("Top: "), ph, Txt(".")>>
  /\ \E tm \in 1..MaxTopMax :
       yaml = Yaml("full", TRUE, {"USER", "REPO", "ORG"}, tm, MaxCap, HideRules)
  /\ repoAggregates = <<RepoAggregatedStats(1), RepoAggregatedStats(2)>>
  /\ context = SvgContext

\* documents of several tokens under every mode, entity list and cap
InitDocs ==
  /\ aggregates = PerWindow(AllRows)
  /\ userPrivacy = {1}
  /\ readmeContent \in Docs
  /\ \/ \E ents \in {{"USER", "REPO", "ORG"}, {"USER"}, {"ORG"}} :
          \E cap \in 1..MaxCap :
            yaml = Yaml("full", TRUE, ents, MaxTopMax, cap, NoRules)
     \/ yaml = Yaml("full", FALSE, {}, 1, 1, NoRules)
     \/ \E mode \in {"assets-only", "template"} :
          yaml = Yaml(mode, TRUE, {"USER", "REPO", "ORG"}, MaxTopMax, MaxCap, NoRules)
  /\ repoAggregates \in RepoAggregatesGetByOrg
  /\ context \in {NoContext, SvgContext}

\* placeholders that name a user, carry a format option, or ask for an asset
PolicyPlaceholders ==
  {Placeholder("USER", sel, f, o) :
     sel \in {"USERNAME(user1)", "USERNAME(user2)", "USERNAME(ghost)"},
     f \in {"username", "commits"},
     o \in {<< >>, Fb("N/A")}}
  \cup {Placeholder("USER", "TOP(1)", f, << <<"format", fmt>> >>) :
          f \in {"commits", "streak", "username"},
          fmt \in {"compact", "number", "badge", "fire"}}
  \cup {Placeholder("SVG", sel, "", o) :
          sel \in {"LEADERBOARD", "HEATMAP", "LEADERBOARD_THEMED"},
          o \in {<< >>, Fb("N/A"), Fb("$&")}}
  \cup {Placeholder(e[1], e[2], e[3], << <<"window", w>>, <<"fallback", "N/A">> >>) :
          e \in {<<"USER", "TOP(1)", "username">>, <<"REPO", "TOP(1)", "name">>,
                 <<"ORG", "ACTIVE_USERS", "">>},
          w \in WindowOptions}

\* one placeholder after a run of text, under policies with and without
\* allow_username, with and without the asset context
InitPolicy ==
  /\ aggregates = PerWindow(AllRows)
  /\ userPrivacy \in {{}, {1}}
  /\ \E ph \in PolicyPlaceholders : readmeContent = <<Txt("Hi "), ph>>
  /\ \E au \in BOOLEAN : \E ents \in {{"USER", "REPO", "ORG"}, {"ORG"}} :
       yaml = [Yaml("full", TRUE, ents, MaxTopMax, MaxCap, HideRules)
                 EXCEPT !.readme.allow.user_selectors.allow_username = au]
  /\ repoAggregates = <<RepoAggregatedStats(1), RepoAggregatedStats(2)>>
  /\ context \in {NoContext, SvgContext}

\* placeholder-like text that the regex does not match (lowercase selector)
Malformed == Placeholder("ORG", "active_users", "", << >>)

\* documents with unmatched text around placeholders, one of which declares
\* the prefix as its fallback
FrameTokens ==
  {Txt("text"),
   Txt(PlaceholderSuffix),
   Malformed,
   Joined,
   Placeholder("USER", "TOP(0)", "username", Fb(PlaceholderPrefix))}

InitFrame ==
  /\ aggregates = PerWindow(AllRows)
  /\ userPrivacy = {}
  /\ readmeContent \in UNION {[1..n -> FrameTokens] : n \in 1..(MaxDoc + 1)}
  /\ yaml = Yaml("full", TRUE, {"USER", "REPO", "ORG"}, MaxTopMax, MaxCap, NoRules)
  /\ repoAggregates = << >>
  /\ context = NoContext

Init ==
  /\ pc = "start"
  /\ InitSelect \/ InitDocs \/ InitPolicy \/ InitFrame
  /\ optedOutIds = {}
  /\ limited = << >>
  /\ i = 1
  /\ result = << >>
  /\ log = << >>
  /\ lastIndex = 0
  /\ fetches = << >>
  /\ returned = << >>
  /\ updates = 0
  /\ caller = IF yaml.mode = "full" THEN "resolve" ELSE "direct"
  /\ upserts = << >>
  /\ held = << >>
  /\ OtherOrgIdle
  /\ UpdaterIdle
  /\ WebhookIdle
  /\ StreakIdle

\* ----------------------------------------------------------------- actions
Inputs == <<yaml, readmeContent, context, aggregates, repoAggregates, userPrivacy>>

Publisher == <<updates, caller, upserts>>

Query(provider, window) == [provider |-> provider, window |-> window]

\* an array a provider returned: its rows when returned and its rows now
Held(from, now) == [from |-> from, now |-> now]

statsRawAfter_FilteredInPlace(statsRaw, optedOut) ==
  SortByScoreDesc(applyPrivacyFilter(statsRaw, optedOut))

\* stats.filter(...) builds a new array and .sort(...) sorts that one, and
\* selectUser sorts [...stats]: statsRaw keeps its rows and their order
statsRawAfter(statsRaw, optedOut) == statsRaw

\* [...repoStats].sort(...) sorts a copy
repoStatsAfter(repoStats) == repoStats

\* if (yaml.mode !== 'full') return readmeContent
ReturnNotFull ==
  /\ pc = "start"
  /\ ~ModeAllows(yaml)
  /\ result' = readmeContent
  /\ returned' = Append(returned, readmeContent)
  /\ pc' = "done"
  /\ UNCHANGED <<Inputs, optedOutIds, limited, i, log, lastIndex, fetches, Publisher, held, Rest>>

\* if (matches.length === 0) return readmeContent
ReturnNoMatches ==
  /\ pc = "start"
  /\ ModeAllows(yaml)
  /\ parsePlaceholderAt(readmeContent, lastIndex) = << >>
  /\ lastIndex' = LastIndexAfterExecNull(readmeContent)
  /\ result' = readmeContent
  /\ returned' = Append(returned, readmeContent)
  /\ pc' = "done"
  /\ UNCHANGED <<Inputs, optedOutIds, limited, i, log, fetches, Publisher, held, Rest>>

\* slice to the cap, load the opted-out set, copy the text
BeginLoop ==
  /\ pc = "start"
  /\ ModeAllows(yaml)
  /\ parsePlaceholderAt(readmeContent, lastIndex) # << >>
  /\ lastIndex' = LastIndexAfterExecNull(readmeContent)
  /\ limited' = Slice(parsePlaceholderAt(readmeContent, lastIndex),
                      ReadmeConfig(yaml).allow.max_placeholders)
  /\ optedOutIds' = userPrivacy
  /\ fetches' = Append(fetches, Query("privacy.getOptedOutUsers", ""))
  /\ result' = readmeContent
  /\ i' = 1
  /\ pc' = "loop"
  /\ UNCHANGED <<Inputs, log, returned, Publisher, held, Rest>>

Current == limited[i]

CurrentDecision ==
  Decision(Current, yaml, context, aggregates, repoAggregates, optedOutIds)

Iterate_ReloadsOptedOut(d, queries, arrays) ==
  /\ result' = Apply(result, Current, d)
  /\ held' = held \o arrays
  /\ fetches' = fetches \o <<Query("privacy.getOptedOutUsers", "")>> \o queries
  /\ optedOutIds' = userPrivacy
  /\ log' = Append(log, [why |-> d.why, selected |-> d.selected, repl |-> d.repl,
                         replaced |-> d.why # "not_allowed" /\ IndexOf(result, Current.full) # 0,
                         out |-> Substituted(result, Current, d)])
  /\ i' = i + 1
  /\ UNCHANGED <<pc, Inputs, limited, lastIndex, returned, Publisher, Rest>>

Iterate_BreakOnFailure(d, queries, arrays) ==
  /\ result' = Apply(result, Current, d)
  /\ held' = held \o arrays
  /\ fetches' = fetches \o queries
  /\ log' = Append(log, [why |-> d.why, selected |-> d.selected, repl |-> d.repl,
                         replaced |-> d.why # "not_allowed" /\ IndexOf(result, Current.full) # 0,
                         out |-> Substituted(result, Current, d)])
  /\ i' = IF d.why \in {"value", "svg"} THEN i + 1 ELSE Len(limited) + 1
  /\ UNCHANGED <<pc, Inputs, optedOutIds, limited, lastIndex, returned, Publisher, Rest>>

Iterate(d, queries, arrays) ==
  /\ result' = Apply(result, Current, d)
  /\ held' = held \o arrays
  /\ fetches' = fetches \o queries
  /\ log' = Append(log, [why |-> d.why, selected |-> d.selected, repl |-> d.repl,
                         replaced |-> d.why # "not_allowed" /\ IndexOf(result, Current.full) # 0,
                         out |-> Substituted(result, Current, d)])
  /\ i' = i + 1
  /\ UNCHANGED <<pc, Inputs, optedOutIds, limited, lastIndex, returned, Publisher, Rest>>

StepSvg ==
  /\ pc = "loop" /\ i <= Len(limited)
  /\ Current.entity = "SVG"
  /\ Iterate(SvgDecision(Current, context), << >>, << >>)

StepNotAllowed ==
  /\ pc = "loop" /\ i <= Len(limited)
  /\ Current.entity # "SVG"
  /\ ~EntityAllowed(Current, yaml)
  /\ Iterate(CurrentDecision, << >>, << >>)

StepUser ==
  /\ pc = "loop" /\ i <= Len(limited)
  /\ EntityAllowed(Current, yaml)
  /\ Current.entity = "USER"
  /\ Iterate(UserDecision(Current, aggregates[Window(Current, yaml)], optedOutIds, yaml),
             <<Query("aggregator.getOrgStats", Window(Current, yaml))>>,
             <<Held(aggregates[Window(Current, yaml)],
                    statsRawAfter(aggregates[Window(Current, yaml)], optedOutIds))>>)

StepRepo ==
  /\ pc = "loop" /\ i <= Len(limited)
  /\ EntityAllowed(Current, yaml)
  /\ Current.entity = "REPO"
  /\ Iterate(RepoDecision(Current, repoAggregates),
             <<Query("repoAggregates.getByOrg", Window(Current, yaml))>>,
             <<Held(repoAggregates, repoStatsAfter(repoAggregates))>>)

StepOrg ==
  /\ pc = "loop" /\ i <= Len(limited)
  /\ EntityAllowed(Current, yaml)
  /\ Current.entity = "ORG"
  /\ Iterate(OrgDecision(Current, GetSummary(aggregates[Window(Current, yaml)], repoAggregates)),
             <<Query("orgStats.getSummary", Window(Current, yaml))>>, << >>)

\* return result
Return ==
  /\ pc = "loop" /\ i > Len(limited)
  /\ returned' = Append(returned, result)
  /\ pc' = "done"
  /\ UNCHANGED <<Inputs, optedOutIds, limited, i, result, log, lastIndex, fetches, Publisher, held, Rest>>

Next ==
  \/ ReturnNotFull
  \/ ReturnNoMatches
  \/ BeginLoop
  \/ StepSvg
  \/ StepNotAllowed
  \/ StepUser
  \/ StepRepo
  \/ StepOrg
  \/ Return

Spec == Init /\ [][Next]_vars

\* ------------------------------------- the call in its environment
\* (ReadmePublisher.handleYamlMode around it, the store written by other
\* processes, providers that can reject)
StoreContents == {AllRows, Tail(AllRows)}

EnvTokens ==
  {Txt("text"),
   Placeholder("USER", "TOP(1)", "username", << >>),
   Placeholder("USER", "TOP(1)", "commits", << >>),
   Placeholder("USER", "TOP(0)", "username", Fb("N/A")),
   Placeholder("USER", "NEW(1)", "username", << >>),
   Placeholder("USER", "ACTIVE(1)", "username", << >>),
   Placeholder("REPO", "TOP(1)", "name", Fb("N/A")),
   Placeholder("ORG", "TOTAL_COMMITS", "", << >>),
   Placeholder("SVG", "LEADERBOARD", "", << >>)}

InitEnv ==
  /\ pc = "start"
  /\ \E rows \in StoreContents : aggregates = PerWindow(rows)
  /\ userPrivacy = {}
  /\ readmeContent \in UNION {[1..n -> EnvTokens] : n \in 1..MaxEnvDoc}
  /\ \/ \E ents \in {{"USER", "REPO", "ORG"}, {"USER"}} :
          yaml = Yaml("full", TRUE, ents, MaxTopMax, MaxCap, NoRules)
     \/ yaml = Yaml("template", TRUE, {"USER", "REPO", "ORG"}, MaxTopMax, MaxCap, NoRules)
  /\ repoAggregates = <<RepoAggregatedStats(1), RepoAggregatedStats(2)>>
  /\ context = SvgContext
  /\ optedOutIds = {}
  /\ limited = << >>
  /\ i = 1
  /\ result = << >>
  /\ log = << >>
  /\ lastIndex = 0
  /\ fetches = << >>
  /\ returned = << >>
  /\ updates = 0
  /\ caller = IF yaml.mode = "full" THEN "resolve" ELSE "direct"
  /\ upserts = << >>
  /\ held = << >>
  /\ OtherOrgIdle
  /\ UpdaterIdle
  /\ WebhookIdle
  /\ StreakIdle

Pass == <<pc, optedOutIds, limited, i, result, log, lastIndex, fetches, returned>>

\* another process upserts or removes rows of aggregated_stats while the
\* call is suspended at an await
StoreUpdate ==
  /\ pc = "loop"
  /\ updates < MaxUpdates
  /\ \E rows \in StoreContents :
       /\ aggregates' = PerWindow(rows)
       /\ aggregates' # aggregates
  /\ updates' = updates + 1
  /\ UNCHANGED <<Pass, yaml, readmeContent, context, repoAggregates, userPrivacy,
                 caller, upserts, held, Rest>>

\* another process records that user 1 opts out (privacy.upsert) while the
\* call is suspended at an await
PrivacyUpsert ==
  /\ pc = "loop"
  /\ updates < MaxUpdates
  /\ 1 \notin userPrivacy
  /\ userPrivacy' = userPrivacy \cup {1}
  /\ updates' = updates + 1
  /\ UNCHANGED <<Pass, yaml, readmeContent, context, aggregates, repoAggregates,
                 caller, upserts, held, Rest>>

\* await repository.privacy.getOptedOutUsers(orgId) rejects
PrivacyThrows ==
  /\ pc = "start"
  /\ ModeAllows(yaml)
  /\ parsePlaceholderAt(readmeContent, lastIndex) # << >>
  /\ lastIndex' = LastIndexAfterExecNull(readmeContent)
  /\ fetches' = Append(fetches, Query("privacy.getOptedOutUsers", ""))
  /\ pc' = "failed"
  /\ UNCHANGED <<Inputs, optedOutIds, limited, i, result, log, returned, Publisher, held, Rest>>

\* the awaited statistics query of the iteration rejects
StatsThrows ==
  /\ pc = "loop" /\ i <= Len(limited)
  /\ Current.entity # "SVG"
  /\ EntityAllowed(Current, yaml)
  /\ fetches' = Append(fetches, Query("statistics", Window(Current, yaml)))
  /\ pc' = "failed"
  /\ UNCHANGED <<Inputs, optedOutIds, limited, i, result, log, lastIndex, returned,
                 Publisher, held, Rest>>

\* return await this.upsertReadmeFile(installationId, orgLogin, readmeFile, resolved)
UpsertReadmeFile ==
  /\ caller = "resolve"
  /\ pc = "done"
  /\ upserts' = Append(upserts, returned[Len(returned)])
  /\ caller' = "upserted"
  /\ UNCHANGED <<Pass, Inputs, updates, held, Rest>>

CatchError_WritesPartial ==
  /\ caller = "resolve"
  /\ pc = "failed"
  /\ upserts' = Append(upserts, result)
  /\ caller' = "upserted"
  /\ UNCHANGED <<Pass, Inputs, updates, held, Rest>>

\* catch (error) { logger.error(...); return false; }
CatchError ==
  /\ caller = "resolve"
  /\ pc = "failed"
  /\ caller' = "caught"
  /\ UNCHANGED <<Pass, Inputs, updates, upserts, held, Rest>>

\* the next update of the same organisation calls again with the same inputs
CallAgain ==
  /\ pc = "done"
  /\ caller \in {"upserted", "direct"}
  /\ Len(returned) < MaxPasses
  /\ pc' = "start"
  /\ optedOutIds' = {}
  /\ limited' = << >>
  /\ i' = 1
  /\ result' = << >>
  /\ log' = << >>
  /\ fetches' = << >>
  /\ held' = << >>
  /\ caller' = IF yaml.mode = "full" THEN "resolve" ELSE "direct"
  /\ UNCHANGED <<Inputs, lastIndex, returned, updates, upserts, Rest>>

NextEnv ==
  \/ ReturnNotFull
  \/ ReturnNoMatches
  \/ BeginLoop
  \/ StepSvg
  \/ StepNotAllowed
  \/ StepUser
  \/ StepRepo
  \/ StepOrg
  \/ Return
  \/ StoreUpdate
  \/ PrivacyUpsert
  \/ PrivacyThrows
  \/ StatsThrows
  \/ UpsertReadmeFile
  \/ CatchError
  \/ CallAgain

SpecEnv == InitEnv /\ [][NextEnv]_vars

\* ------------------------- passes of two organisations sharing the regex
PassTokens ==
  {Txt("text"),
   Placeholder("USER", "TOP(1)", "username", << >>),
   Placeholder("REPO", "TOP(1)", "name", Fb("N/A")),
   Placeholder("ORG", "TOTAL_COMMITS", "", << >>),
   Placeholder("SVG", "LEADERBOARD", "", << >>)}

\* the template of another organisation
OtherText ==
  <<Txt("Stats: "), Placeholder("ORG", "TOTAL_COMMITS", "", << >>), Txt(" by "),
    Placeholder("USER", "TOP(1)", "username", << >>)>>

\* a pass for another organisation parses its text with the same regex
\* object, then stays suspended at its first await
OtherParse ==
  /\ otherPc = "idle"
  /\ otherMatches' = parsePlaceholderAt(OtherText, lastIndex)
  /\ lastIndex' = LastIndexAfterExecNull(OtherText)
  /\ otherPc' = "suspended"
  /\ UNCHANGED <<pc, optedOutIds, limited, i, result, log, fetches, returned, Inputs,
                 Publisher, held, Updater, Webhook, Streak>>

InitPasses ==
  /\ pc = "start"
  /\ aggregates = PerWindow(AllRows)
  /\ userPrivacy \in {{}, {1}}
  /\ readmeContent \in UNION {[1..n -> PassTokens] : n \in 1..(MaxEnvDoc + 1)}
  /\ \/ \E ents \in {{"USER", "REPO", "ORG"}, {"USER"}} : \E cap \in 1..MaxCap :
          yaml = Yaml("full", TRUE, ents, MaxTopMax, cap, NoRules)
     \/ yaml = Yaml("template", TRUE, {"USER", "REPO", "ORG"}, MaxTopMax, MaxCap, NoRules)
  /\ repoAggregates = <<RepoAggregatedStats(1), RepoAggregatedStats(2)>>
  /\ context = SvgContext
  /\ optedOutIds = {}
  /\ limited = << >>
  /\ i = 1
  /\ result = << >>
  /\ log = << >>
  /\ lastIndex = 0
  /\ fetches = << >>
  /\ returned = << >>
  /\ updates = 0
  /\ caller = IF yaml.mode = "full" THEN "resolve" ELSE "direct"
  /\ upserts = << >>
  /\ held = << >>
  /\ OtherOrgIdle
  /\ UpdaterIdle
  /\ WebhookIdle
  /\ StreakIdle

NextPasses ==
  \/ ReturnNotFull
  \/ ReturnNoMatches
  \/ BeginLoop
  \/ StepSvg
  \/ StepNotAllowed
  \/ StepUser
  \/ StepRepo
  \/ StepOrg
  \/ Return
  \/ UpsertReadmeFile
  \/ CallAgain
  \/ OtherParse

SpecPasses == InitPasses /\ [][NextPasses]_vars

\* the state of the resolution passes, which the other components leave alone
Engine == <<Pass, Inputs, Publisher, held, otherPc, otherMatches>>

\* --------------------------------------- ReadmePublisher.updateReadme
\* PROFILE_README_PATH and the files writeAllSvgAssets writes under the
\* assets base path
ReadmeFile == "profile/README.md"

AssetFiles == {"leaderboard.svg", "leaderboard-dark.svg", "heatmap.svg", "heatmap-dark.svg"}

\* .github/impactboard.yml: missing (404), not parseable, parseable but
\* rejected by the schema, or accepted; failOnInvalidConfig is what the
\* parsed file says under behavior.fail_on_invalid_config
YamlFiles ==
  {[kind |-> "missing", mode |-> "none", placeholder |-> FALSE, failOnInvalidConfig |-> FALSE],
   [kind |-> "syntax_error", mode |-> "none", placeholder |-> FALSE,
    failOnInvalidConfig |-> FALSE]}
  \cup {[kind |-> "schema_error", mode |-> "none", placeholder |-> FALSE,
         failOnInvalidConfig |-> f] : f \in BOOLEAN}
  \cup {[kind |-> "valid", mode |-> m, placeholder |-> ph, failOnInvalidConfig |-> f] :
          m \in {"template", "assets-only", "full"}, ph \in BOOLEAN, f \in BOOLEAN}

validateImpactYamlConfig(file) ==
  CASE file.kind = "valid" ->
         [valid |-> TRUE, config |-> [mode |-> file.mode, placeholder |-> file.placeholder],
          errors |-> 0, failOnInvalidConfig |-> file.failOnInvalidConfig]
    [] file.kind = "schema_error" ->
         [valid |-> FALSE, config |-> NoConfig, errors |-> 1,
          failOnInvalidConfig |-> file.failOnInvalidConfig]
    [] file.kind = "syntax_error" ->
         [valid |-> FALSE, config |-> NoConfig, errors |-> 1, failOnInvalidConfig |-> FALSE]
    [] OTHER ->
         [valid |-> FALSE, config |-> NoConfig, errors |-> 0, failOnInvalidConfig |-> FALSE]

\* returns the config when valid and null otherwise; fail_on_invalid_config
\* only selects the log level and message
loadImpactYamlConfig(file) ==
  LET validation == validateImpactYamlConfig(file)
  IN IF validation.valid THEN validation.config ELSE NoConfig

InitUpdate ==
  /\ installation \in [enableReadmeUpdates : BOOLEAN, found : BOOLEAN]
  /\ yamlFile \in YamlFiles
  /\ config = NoConfig
  /\ profileReadme \in {"absent", "stale", "current"}
  /\ writes = {}
  /\ upc = "start"
  /\ ret = FALSE
  /\ pc = "idle"
  /\ yaml = Yaml("full", TRUE, {"USER", "REPO", "ORG"}, MaxTopMax, MaxCap, NoRules)
  /\ readmeContent = << >>
  /\ context = NoContext
  /\ aggregates = PerWindow(<< >>)
  /\ repoAggregates = << >>
  /\ userPrivacy = {}
  /\ optedOutIds = {}
  /\ limited = << >>
  /\ i = 1
  /\ result = << >>
  /\ log = << >>
  /\ lastIndex = 0
  /\ fetches = << >>
  /\ returned = << >>
  /\ updates = 0
  /\ caller = "idle"
  /\ upserts = << >>
  /\ held = << >>
  /\ OtherOrgIdle
  /\ WebhookIdle
  /\ StreakIdle

UpdateReturns(value) ==
  /\ upc' = "returned"
  /\ ret' = value

\* if (!installation?.settings.enableReadmeUpdates) return false
UpdatesDisabled ==
  /\ upc = "start"
  /\ ~installation.enableReadmeUpdates
  /\ UpdateReturns(FALSE)
  /\ UNCHANGED <<installation, yamlFile, config, profileReadme, writes, Engine, Webhook, Streak>>

\* if (!orgData) return false
InstallationNotFound ==
  /\ upc = "start"
  /\ installation.enableReadmeUpdates
  /\ ~installation.found
  /\ UpdateReturns(FALSE)
  /\ UNCHANGED <<installation, yamlFile, config, profileReadme, writes, Engine, Webhook, Streak>>

\* const config = await loadImpactYamlConfig(...); if (config) handleYamlMode
\* else legacyUpdateReadme
LoadConfig ==
  /\ upc = "start"
  /\ installation.enableReadmeUpdates
  /\ installation.found
  /\ config' = loadImpactYamlConfig(yamlFile)
  /\ upc' = IF config' # NoConfig THEN "yaml" ELSE "legacy"
  /\ UNCHANGED <<installation, yamlFile, profileReadme, writes, ret, Engine, Webhook, Streak>>

\* template mode: renderTemplateReadme writes leaderboard.svg, then the
\* rendered text is upserted; rendering or the upsert may fail
HandleTemplate ==
  /\ upc = "yaml"
  /\ config.mode = "template"
  /\ \E outcome \in {"render_throws", "upsert_fails", "ok"} :
       /\ writes' = writes \cup (IF outcome = "render_throws" THEN {} ELSE {"leaderboard.svg"})
                           \cup (IF outcome = "ok" THEN {ReadmeFile} ELSE {})
       /\ profileReadme' = IF outcome = "ok" THEN "template" ELSE profileReadme
       /\ UpdateReturns(outcome = "ok")
  /\ UNCHANGED <<installation, yamlFile, config, Engine, Webhook, Streak>>

HandleAssetsOnly_UpsertsReadme ==
  /\ upc = "yaml"
  /\ config.mode = "assets-only"
  /\ \E written \in SUBSET AssetFiles :
       /\ writes' = writes \cup written \cup {ReadmeFile}
       /\ UpdateReturns(written = AssetFiles)
  /\ profileReadme' = "template"
  /\ UNCHANGED <<installation, yamlFile, config, Engine, Webhook, Streak>>

\* assets-only mode: writeAllSvgAssets starts the four writes; when one of
\* them rejects the catch block returns false, else the call returns true
HandleAssetsOnly ==
  /\ upc = "yaml"
  /\ config.mode = "assets-only"
  /\ \E written \in SUBSET AssetFiles :
       /\ writes' = writes \cup written
       /\ UpdateReturns(written = AssetFiles)
  /\ UNCHANGED <<installation, yamlFile, config, profileReadme, Engine, Webhook, Streak>>

\* full mode without readme.placeholder: return false
FullWithoutPlaceholder ==
  /\ upc = "yaml"
  /\ config.mode = "full"
  /\ ~config.placeholder
  /\ UpdateReturns(FALSE)
  /\ UNCHANGED <<installation, yamlFile, config, profileReadme, writes, Engine, Webhook, Streak>>

\* full mode: write the assets, fetch the template, resolve, upsert
HandleFull ==
  /\ upc = "yaml"
  /\ config.mode = "full"
  /\ config.placeholder
  /\ \E written \in SUBSET AssetFiles : \E fetched \in BOOLEAN : \E upserted \in BOOLEAN :
       LET ok == written = AssetFiles /\ fetched /\ upserted
       IN /\ writes' = writes \cup written \cup (IF ok THEN {ReadmeFile} ELSE {})
          /\ profileReadme' = IF ok THEN "resolved" ELSE profileReadme
          /\ UpdateReturns(ok)
  /\ UNCHANGED <<installation, yamlFile, config, Engine, Webhook, Streak>>

\* legacy mode, no README yet: initializeReadme creates it from the
\* template, then the rendered content is written
LegacyInitialize ==
  /\ upc = "legacy"
  /\ profileReadme = "absent"
  /\ \E initialized \in BOOLEAN : \E success \in BOOLEAN :
       /\ writes' = writes \cup (IF initialized THEN {ReadmeFile} ELSE {})
       /\ profileReadme' = IF ~initialized THEN profileReadme
                           ELSE IF success THEN "current" ELSE "initial"
       /\ UpdateReturns(initialized /\ success)
  /\ UNCHANGED <<installation, yamlFile, config, Engine, Webhook, Streak>>

\* legacy mode, rendered content equal to the existing content: return true
LegacyUnchanged ==
  /\ upc = "legacy"
  /\ profileReadme = "current"
  /\ UpdateReturns(TRUE)
  /\ UNCHANGED <<installation, yamlFile, config, profileReadme, writes, Engine, Webhook, Streak>>

\* legacy mode: updateProfileReadme writes the rendered content
LegacyUpdate ==
  /\ upc = "legacy"
  /\ profileReadme = "stale"
  /\ \E success \in BOOLEAN :
       /\ writes' = writes \cup (IF success THEN {ReadmeFile} ELSE {})
       /\ profileReadme' = IF success THEN "current" ELSE profileReadme
       /\ UpdateReturns(success)
  /\ UNCHANGED <<installation, yamlFile, config, Engine, Webhook, Streak>>

NextUpdate ==
  \/ UpdatesDisabled
  \/ InstallationNotFound
  \/ LoadConfig
  \/ HandleTemplate
  \/ HandleAssetsOnly
  \/ FullWithoutPlaceholder
  \/ HandleFull
  \/ LegacyInitialize
  \/ LegacyUnchanged
  \/ LegacyUpdate

SpecUpdate == InitUpdate /\ [][NextUpdate]_vars

\* ------------------------------------------------ webhook idempotency
SUPPORTED_WEBHOOK_EVENTS ==
  {"push", "pull_request", "issues", "installation", "installation_repositories"}

\* bounds of the webhook model
MaxRequests == 3

EventTypes == {"push", "issues", "ping"}

DeliveryIds == {"d1", "d2"}

getIdempotencyKey(deliveryId, event) == event \o ":" \o deliveryId

Key(r) == getIdempotencyKey(deliveries[r].deliveryId, deliveries[r].eventType)

isEventProcessed(deliveryId, event) ==
  getIdempotencyKey(deliveryId, event) \in processedEvents

\* the requests GitHub sends: redeliveries carry the same delivery id
InitWebhook ==
  /\ processedEvents = {}
  /\ deliveries \in [1..MaxRequests ->
                      [eventType : EventTypes, deliveryId : DeliveryIds, at : {"received"}]]
  /\ handled = [k \in {getIdempotencyKey(d, e) : d \in DeliveryIds, e \in EventTypes} |-> 0]
  /\ pc = "idle"
  /\ yaml = Yaml("full", TRUE, {"USER", "REPO", "ORG"}, MaxTopMax, MaxCap, NoRules)
  /\ readmeContent = << >>
  /\ context = NoContext
  /\ aggregates = PerWindow(<< >>)
  /\ repoAggregates = << >>
  /\ userPrivacy = {}
  /\ optedOutIds = {}
  /\ limited = << >>
  /\ i = 1
  /\ result = << >>
  /\ log = << >>
  /\ lastIndex = 0
  /\ fetches = << >>
  /\ returned = << >>
  /\ updates = 0
  /\ caller = "idle"
  /\ upserts = << >>
  /\ held = << >>
  /\ OtherOrgIdle
  /\ UpdaterIdle
  /\ StreakIdle

\* unsupported event type: 200 'Event type not supported'
IgnoreUnsupported(r) ==
  /\ deliveries[r].at = "received"
  /\ deliveries[r].eventType \notin SUPPORTED_WEBHOOK_EVENTS
  /\ deliveries' = [deliveries EXCEPT ![r].at = "responded"]
  /\ UNCHANGED <<processedEvents, handled, Engine, Updater, Streak>>

\* idempotency check hit: 200 'Event already processed'
AlreadyProcessed(r) ==
  /\ deliveries[r].at = "received"
  /\ deliveries[r].eventType \in SUPPORTED_WEBHOOK_EVENTS
  /\ isEventProcessed(deliveries[r].deliveryId, deliveries[r].eventType)
  /\ deliveries' = [deliveries EXCEPT ![r].at = "responded"]
  /\ UNCHANGED <<processedEvents, handled, Engine, Updater, Streak>>

\* idempotency check missed: the event handler is called and awaited
StartHandler(r) ==
  /\ deliveries[r].at = "received"
  /\ deliveries[r].eventType \in SUPPORTED_WEBHOOK_EVENTS
  /\ ~isEventProcessed(deliveries[r].deliveryId, deliveries[r].eventType)
  /\ handled' = [handled EXCEPT ![Key(r)] = @ + 1]
  /\ deliveries' = [deliveries EXCEPT ![r].at = "handling"]
  /\ UNCHANGED <<processedEvents, Engine, Updater, Streak>>

\* the handler resolved: markEventProcessed, record, 200
FinishHandler(r) ==
  /\ deliveries[r].at = "handling"
  /\ processedEvents' = processedEvents \cup {Key(r)}
  /\ deliveries' = [deliveries EXCEPT ![r].at = "responded"]
  /\ UNCHANGED <<handled, Engine, Updater, Streak>>

\* the handler rejected: the catch block records the failure, 500; the key
\* is not marked
HandlerThrows(r) ==
  /\ deliveries[r].at = "handling"
  /\ deliveries' = [deliveries EXCEPT ![r].at = "failed"]
  /\ UNCHANGED <<processedEvents, handled, Engine, Updater, Streak>>

NextWebhook ==
  \/ \E r \in 1..MaxRequests : IgnoreUnsupported(r)
  \/ \E r \in 1..MaxRequests : AlreadyProcessed(r)
  \/ \E r \in 1..MaxRequests : StartHandler(r)
  \/ \E r \in 1..MaxRequests : FinishHandler(r)
  \/ \E r \in 1..MaxRequests : HandlerThrows(r)

SpecWebhook == InitWebhook /\ [][NextWebhook]_vars

\* ----------------------------------------- StreakCalculator.updateStreak
\* bounds of the streak model: days the clock runs through, concurrent calls
MaxDay == 3

MaxCalls == 2

\* utils/date.ts on day numbers
isConsecutiveDay(previousDate, currentDate) == currentDate - previousDate = 1

isToday(dateStr, now) == dateStr = now

isYesterday(dateStr, now) == dateStr = now - 1

FirstStreak(today) ==
  [exists |-> TRUE, currentStreak |-> 1, longestStreak |-> 1, lastContributionDate |-> today,
   streakStartDate |-> today, longestStreakStartDate |-> today,
   longestStreakEndDate |-> today]

updateStreakInfo_LongestNotRaised(streakInfo, today, now) ==
  IF ~streakInfo.exists THEN FirstStreak(today)
  ELSE IF streakInfo.lastContributionDate = today THEN streakInfo
  ELSE IF isConsecutiveDay(streakInfo.lastContributionDate, today)
    THEN [streakInfo EXCEPT !.currentStreak = @ + 1, !.lastContributionDate = today]
  ELSE IF isYesterday(streakInfo.lastContributionDate, now)
          \/ isToday(streakInfo.lastContributionDate, now)
    THEN [streakInfo EXCEPT !.lastContributionDate = today]
  ELSE [streakInfo EXCEPT !.currentStreak = 1, !.streakStartDate = today,
                          !.lastContributionDate = today]

\* the record updateStreak returns for the row it read, today being the day
\* taken at the start of the call and now the day when the row is examined
updateStreakInfo(streakInfo, today, now) ==
  IF ~streakInfo.exists THEN FirstStreak(today)
  ELSE IF streakInfo.lastContributionDate = today THEN streakInfo
  ELSE IF isConsecutiveDay(streakInfo.lastContributionDate, today)
    THEN LET continued == [streakInfo EXCEPT !.currentStreak = @ + 1,
                                             !.lastContributionDate = today]
         IN IF continued.currentStreak > continued.longestStreak
            THEN [continued EXCEPT
                    !.longestStreak = continued.currentStreak,
                    !.longestStreakEndDate = today,
                    !.longestStreakStartDate =
                       IF @ = 0 THEN continued.streakStartDate ELSE @]
            ELSE continued
  ELSE IF isYesterday(streakInfo.lastContributionDate, now)
          \/ isToday(streakInfo.lastContributionDate, now)
    THEN [streakInfo EXCEPT !.lastContributionDate = today]
  ELSE [streakInfo EXCEPT !.currentStreak = 1, !.streakStartDate = today,
                          !.lastContributionDate = today]

\* no call running: no locals
IdleCall == [at |-> "idle", today |-> 0, streakInfo |-> NoStreak]

InitStreak ==
  /\ streaks = NoStreak
  /\ clock = 1
  /\ calls = [c \in 1..MaxCalls |-> IdleCall]
  /\ pc = "idle"
  /\ yaml = Yaml("full", TRUE, {"USER", "REPO", "ORG"}, MaxTopMax, MaxCap, NoRules)
  /\ readmeContent = << >>
  /\ context = NoContext
  /\ aggregates = PerWindow(<< >>)
  /\ repoAggregates = << >>
  /\ userPrivacy = {}
  /\ optedOutIds = {}
  /\ limited = << >>
  /\ i = 1
  /\ result = << >>
  /\ log = << >>
  /\ lastIndex = 0
  /\ fetches = << >>
  /\ returned = << >>
  /\ updates = 0
  /\ caller = "idle"
  /\ upserts = << >>
  /\ held = << >>
  /\ OtherOrgIdle
  /\ UpdaterIdle
  /\ WebhookIdle

\* midnight UTC passes
Tick ==
  /\ clock < MaxDay
  /\ clock' = clock + 1
  /\ UNCHANGED <<streaks, calls, Engine, Updater, Webhook>>

\* const today = getTodayDate(); await repository.streaks.get(...)
BeginUpdateStreak(c) ==
  /\ calls[c].at = "idle"
  /\ calls' = [calls EXCEPT ![c] = [at |-> "get", today |-> clock, streakInfo |-> NoStreak]]
  /\ UNCHANGED <<streaks, clock, Engine, Updater, Webhook>>

\* the row arrives; the call computes the new record and either returns it
\* (already counted today) or awaits the upsert
GetReturns(c) ==
  /\ calls[c].at = "get"
  /\ calls' = [calls EXCEPT ![c] =
                 IF ~streaks.exists \/ streaks.lastContributionDate # calls[c].today
                 THEN [at |-> "upsert", today |-> calls[c].today,
                       streakInfo |-> updateStreakInfo(streaks, calls[c].today, clock)]
                 ELSE IdleCall]
  /\ UNCHANGED <<streaks, clock, Engine, Updater, Webhook>>

\* await repository.streaks.upsert(streakInfo); return streakInfo
UpsertStreak(c) ==
  /\ calls[c].at = "upsert"
  /\ streaks' = calls[c].streakInfo
  /\ calls' = [calls EXCEPT ![c] = IdleCall]
  /\ UNCHANGED <<clock, Engine, Updater, Webhook>>

NextStreak ==
  \/ Tick
  \/ \E c \in 1..MaxCalls : BeginUpdateStreak(c)
  \/ \E c \in 1..MaxCalls : GetReturns(c)
  \/ \E c \in 1..MaxCalls : UpsertStreak(c)

SpecStreak == InitStreak /\ [][NextStreak]_vars

\* ------------------------------------------------------------- properties
WithoutUsers(rows, ids) == SelectSeq(rows, LAMBDA r : r.userId \notin ids)

WithoutOptedOut == [w \in Windows |-> WithoutUsers(aggregates[w], userPrivacy)]

LiteralText(str) == IF str = "" THEN << >> ELSE <<Txt(str)>>

Processed == 1..Len(log)

IsUser(j) == limited[j].entity = "USER" /\ EntityAllowed(limited[j], yaml)

Rows(j) == aggregates[Window(limited[j], yaml)]

PublicCount(j) == Cardinality({r \in 1..Len(Rows(j)) : Rows(j)[r].userId \notin userPrivacy})

TopMax == ReadmeConfig(yaml).allow.user_selectors.top_max

\* the public row with exactly n - 1 public rows ranked before it (higher
\* score, or equal score and earlier in the list of the provider)
NthPublic(rows, n) ==
  LET pub == {r \in 1..Len(rows) : rows[r].userId \notin userPrivacy}
      ahead(r) == {q \in pub : \/ rows[q].weightedScore > rows[r].weightedScore
                               \/ rows[q].weightedScore = rows[r].weightedScore /\ q < r}
  IN IF \E r \in pub : Cardinality(ahead(r)) = n - 1
     THEN rows[CHOOSE r \in pub : Cardinality(ahead(r)) = n - 1]
     ELSE NotFound

MatchIndexes(text) == {j \in 1..Len(text) : RegexMatches(text[j])}

NthMatchIndex(text, n) ==
  CHOOSE j \in MatchIndexes(text) : Cardinality({q \in MatchIndexes(text) : q < j}) = n - 1

Cap == ReadmeConfig(yaml).allow.max_placeholders

\* C1: no USER placeholder is resolved from a user of the opted-out set, and
\* each resolves exactly as it would on the provider's list without the rows
\* of the opted-out users.
C1_OptedOutInvisible ==
  \A j \in Processed :
    IsUser(j) =>
      /\ log[j].selected \notin userPrivacy
      /\ LET d == UserDecision(limited[j], WithoutUsers(Rows(j), userPrivacy), userPrivacy, yaml)
         IN log[j].why = d.why /\ log[j].selected = d.selected /\ log[j].repl = d.repl

C1_Witness ==
  \E j \in Processed :
    /\ IsUser(j)
    /\ log[j].why = "value"
    /\ limited[j].selector = "TOP(1)"
    /\ Rows(j)[1].userId \in userPrivacy

\* C2: the returned text is the text the call returns when the rows of the
\* opted-out users are absent from the provider's data.
C2_NoInference ==
  pc = "done" =>
    result = resolvePlaceholders(readmeContent, yaml, context, WithoutOptedOut,
                                 repoAggregates, userPrivacy)

\* C3: USER.TOP(n) with 1 <= n <= top_max selects the n-th public user in
\* descending score order, equal scores in provider order, and a value it
\* substitutes is that user's field.
C3_TopIsNthPublic ==
  \A j \in Processed :
    LET n == NumSelector("TOP", limited[j].selector)
        u == NthPublic(Rows(j), n)
    IN (IsUser(j) /\ n >= 1 /\ n <= TopMax) =>
         /\ log[j].selected = u.userId
         /\ u.userId = NoUser => log[j].why = "not_found"
         /\ log[j].why = "value" => log[j].out = <<Txt(resolveUserField(limited[j].field, u))>>

C3_Witness ==
  \E j \in Processed :
    /\ IsUser(j)
    /\ limited[j].selector = "TOP(1)"
    /\ Len(Rows(j)) >= 4
    /\ \A r \in 1..3 : Rows(j)[r].userId \in userPrivacy
    /\ log[j].selected = Rows(j)[4].userId
    /\ log[j].why = "value"

\* C4: USER.TOP(n) with n = 0 or n beyond the number of public users is
\* replaced by the declared fallback text (nothing when none is declared).
C4_ExhaustionGivesFallback ==
  \A j \in Processed :
    LET n == NumSelector("TOP", limited[j].selector)
    IN (IsUser(j) /\ n # NoMatch /\ (n = 0 \/ n > PublicCount(j))) =>
         log[j].replaced /\ log[j].out = LiteralText(Fallback(limited[j]))

\* C5: when the mode is not full the call returns its input text and
\* processes no placeholder.
C5_ModeGate ==
  (pc = "done" /\ yaml.mode # "full") => (result = readmeContent /\ log = << >>)

C5_Witness ==
  /\ pc = "done"
  /\ yaml.mode = "template"
  /\ parsePlaceholder(readmeContent) # << >>
  /\ result = readmeContent

\* C6: in full mode exactly the first max_placeholders occurrences are
\* processed, and the text from the next occurrence on is returned as it was.
C6_CapLeavesLaterOccurrences ==
  (pc = "done" /\ yaml.mode = "full") =>
    LET m == Cardinality(MatchIndexes(readmeContent))
    IN /\ Len(log) = Min(Cap, m)
       /\ m > Cap =>
            LET b == NthMatchIndex(readmeContent, Cap + 1)
                rest == SubSeq(readmeContent, b, Len(readmeContent))
            IN /\ Len(result) >= Len(rest)
               /\ SubSeq(result, Len(result) - Len(rest) + 1, Len(result)) = rest

C6_Witness ==
  /\ pc = "done"
  /\ yaml.mode = "full"
  /\ Cardinality(MatchIndexes(readmeContent)) > Cap
  /\ \E j \in Processed :
       /\ log[j].why = "value"
       /\ limited[j].full = readmeContent[NthMatchIndex(readmeContent, Cap + 1)]
       /\ result[Len(result)] = limited[j].full

\* C7: a USER placeholder whose selector is TOP(n) or RANK(n) with
\* n > top_max is never replaced by a user's field value.
C7_BoundOnTopAndRank ==
  \A j \in Processed :
    LET n == IF NumSelector("TOP", limited[j].selector) # NoMatch
             THEN NumSelector("TOP", limited[j].selector)
             ELSE NumSelector("RANK", limited[j].selector)
    IN (IsUser(j) /\ n > TopMax) => log[j].why # "value"

C9_HiddenFieldGivesFallback ==
  \A j \in Processed :
    (IsUser(j) /\ log[j].selected # NoUser) =>
      /\ limited[j].field \in Hide(yaml, Login(log[j].selected)) =>
           log[j].replaced /\ log[j].out = LiteralText(Fallback(limited[j]))
      /\ limited[j].field = "username" =>
           log[j].out = <<Txt("@" \o Login(log[j].selected))>>

\* C10: a USER placeholder whose field is not in readme.allow.fields is
\* never replaced by the value of that field.
C10_OnlyAllowedFields ==
  \A j \in Processed :
    (IsUser(j) /\ limited[j].field \notin ReadmeConfig(yaml).allow.fields) =>
      log[j].why # "value"

\* C11: under a policy with user_selectors.allow_username = false, a USER
\* placeholder with selector USERNAME(x) is never replaced by a field value
\* of user x.
C11_UsernameSelectorGated ==
  \A j \in Processed :
    (/\ IsUser(j)
     /\ StrSelector("USERNAME", limited[j].selector) # {}
     /\ ~ReadmeConfig(yaml).allow.user_selectors.allow_username) =>
      log[j].why # "value"

\* C12: the tokens an iteration puts in the place of the occurrence are the
\* resolved value (or asset reference), the declared fallback text as
\* written, or nothing.
C12_SubstitutionIsValueOrFallback ==
  \A j \in Processed :
    /\ log[j].replaced
    /\ \/ log[j].why \in {"value", "svg"} /\ log[j].out = <<Txt(log[j].repl)>>
       \/ log[j].out = LiteralText(Fallback(limited[j]))

\* the input text outside the matched occurrences
Outside(text) == SelectSeq(text, LAMBDA tok : ~RegexMatches(tok))

\* a text with every placeholder that two runs of plain text can form
\* written as those two runs
RECURSIVE Expand(_)
Expand(text) ==
  IF text = << >> THEN << >>
  ELSE (IF text[1] = Joined THEN <<Txt(PlaceholderPrefix), Txt(PlaceholderSuffix)>>
        ELSE <<text[1]>>) \o Expand(Tail(text))

RECURSIVE IsSubseq(_, _)
IsSubseq(a, b) ==
  IF a = << >> THEN TRUE
  ELSE IF b = << >> THEN FALSE
  ELSE IF a[1] = b[1] THEN IsSubseq(Tail(a), Tail(b))
  ELSE IsSubseq(a, Tail(b))

\* C13: the input text outside the matched occurrences, unmatched
\* placeholder-like text included, is found unchanged and in the same order
\* in the returned text.
C13_FramePreserved ==
  pc = "done" => IsSubseq(Outside(readmeContent), Expand(result))

\* C15: within one call no provider query is issued twice for the same
\* window.
C15_AtMostOneQueryPerWindow ==
  \A a \in DOMAIN fetches : \A b \in DOMAIN fetches :
    a # b => fetches[a] # fetches[b]

SameStart(rows, u) ==
  {r \in 1..Len(rows) : \E q \in 1..Len(rows) : rows[q].userId = u /\ rows[r].startDate = rows[q].startDate}

\* C14: calls made with the same text, policy, asset context, rows and
\* opted-out set return the same text, also when NEW(n) or ACTIVE(n) has to
\* order users of equal start or end date.
C14_SameInputsSameOutput ==
  updates = 0 =>
    \A a \in DOMAIN returned : \A b \in DOMAIN returned : returned[a] = returned[b]

C14_Witness ==
  /\ updates = 0
  /\ Len(returned) >= 2
  /\ pc = "done"
  /\ \E j \in Processed :
       /\ limited[j].selector = "NEW(1)"
       /\ log[j].why = "value"
       /\ Cardinality(SameStart(Rows(j), log[j].selected)) >= 2

\* C16: two USER placeholders of one call with the same selector and the
\* same window are resolved against the same user, also when the store is
\* written between their iterations.
C16_OneSnapshotPerPass ==
  \A j \in Processed : \A k \in Processed :
    (/\ IsUser(j) /\ IsUser(k)
     /\ limited[j].selector = limited[k].selector
     /\ Window(limited[j], yaml) = Window(limited[k], yaml)) =>
      log[j].selected = log[k].selected

Failures == {"top_max", "not_found", "hidden", "empty_field", "not_allowed", "svg_fallback"}

\* C17: an occurrence that is not resolved does not end the loop: the call
\* returns a text, and it returns only after every occurrence within the cap
\* had its iteration.
C17_FailuresAreLocal ==
  /\ pc \in {"start", "loop", "done"}
  /\ (pc = "loop" /\ i <= Len(limited)) =>
       \/ Current.entity = "SVG"
       \/ ~EntityAllowed(Current, yaml)
       \/ Current.entity \in {"USER", "REPO", "ORG"}
  /\ (pc = "done" /\ ModeAllows(yaml)) =>
       /\ Len(log) = Len(limited)
       /\ returned # << >> /\ returned[Len(returned)] = result
       /\ \A j \in Processed :
            log[j].why = Decision(limited[j], yaml, context, aggregates, repoAggregates,
                                  optedOutIds).why

C17_Witness ==
  /\ pc = "done"
  /\ \E j \in Processed : \E k \in Processed :
       j < k /\ log[j].why \in Failures /\ log[k].why = "value"

\* C18: when a provider rejects, the call ends in failure without returning
\* a text, and handleYamlMode hands nothing to upsertReadmeFile for it.
C18_ProviderFailureWritesNothing ==
  pc = "failed" =>
    /\ caller \in {"resolve", "caught"}
    /\ Len(upserts) = Len(returned)
    /\ \A k \in DOMAIN upserts : upserts[k] = returned[k]

C18_Witness ==
  /\ pc = "failed"
  /\ caller = "caught"
  /\ upserts = << >>
  /\ \E j \in Processed : log[j].why = "value"
  /\ result # readmeContent

\* the asset context holds what the SVG selector asks for
HoldsAsset(selector) ==
  LET paths == context.svgPaths
  IN /\ context.hasSvgPaths
     /\ \/ selector = "LEADERBOARD" /\ paths.leaderboard # ""
        \/ selector = "HEATMAP" /\ paths.heatmap # ""
        \/ selector = "LEADERBOARD_DARK" /\ paths.leaderboardDark # ""
        \/ selector = "HEATMAP_DARK" /\ paths.heatmapDark # ""
        \/ selector = "LEADERBOARD_THEMED" /\ paths.leaderboard # "" /\ paths.leaderboardDark # ""
        \/ selector = "HEATMAP_THEMED" /\ paths.heatmap # "" /\ paths.heatmapDark # ""

\* C19: an SVG placeholder within the cap is replaced whatever the
\* allowed-entity list is: by the asset reference when the context holds the
\* asset, by the declared fallback text (or nothing) otherwise.
C19_SvgAlwaysResolved ==
  \A j \in Processed :
    limited[j].entity = "SVG" =>
      /\ log[j].replaced
      /\ IF HoldsAsset(limited[j].selector)
         THEN log[j].why = "svg" /\ log[j].out = <<Txt(log[j].repl)>>
         ELSE log[j].out = LiteralText(Fallback(limited[j]))

Formats == {"compact", "number", "badge", "fire"}

\* C20: a USER placeholder with a format option whose field resolves to a
\* number is replaced by the formatted number.
C20_FormatApplied ==
  \A j \in Processed :
    LET format == Option(limited[j].options, "format")
    IN (/\ IsUser(j)
        /\ log[j].why = "value"
        /\ format \in Formats
        /\ ParseInt(log[j].repl) # NaN) =>
         log[j].out = <<Txt(formatValue(log[j].repl, format))>>

\* the ORG placeholders as the documentation writes them: the field name
\* of the summary, in lower case, in the selector slot
DocumentedOrg ==
  {Placeholder("ORG", f, "", << >>) :
     f \in {"active_users", "total_commits", "total_prs", "total_loc_added", "total_repos",
            "health_score"}}

\* C21: an ORG placeholder written with the lower-case field name in the
\* selector slot is recognised by the parser and, ORG being allowed and the
\* cap not reached, is not left in the returned text.
C21_LowercaseOrgResolved ==
  /\ \A j \in DOMAIN readmeContent :
       readmeContent[j] \in DocumentedOrg => RegexMatches(readmeContent[j])
  /\ (/\ pc = "done" /\ ModeAllows(yaml)
      /\ "ORG" \in ReadmeConfig(yaml).allow.entities
      /\ Len(readmeContent) <= Cap) =>
       \A j \in DOMAIN result : result[j] \notin DocumentedOrg

\* the value written after "window=" in placeholder p, "absent" if none
WindowOption(p) ==
  IF "window" \in DOMAIN p.options THEN p.options["window"] ELSE "absent"

\* the window the policy y assigns to placeholder p
PolicyWindow(p, y) ==
  IF WindowOption(p) \in y.data.windows.allowed
  THEN WindowOption(p)
  ELSE y.data.windows.default

\* the processed occurrences whose iteration queries a provider
Querying == {j \in Processed : limited[j].entity # "SVG" /\ EntityAllowed(limited[j], yaml)}

\* C25: every statistics query of a call is made for the window the
\* placeholder names when the policy allows that window and for the default
\* window otherwise, and never for a window outside the allowed list plus
\* the default.
C25_WindowFromPolicy ==
  (pc \in {"loop", "done"} /\ fetches # << >>) =>
    /\ Len(fetches) = 1 + Cardinality(Querying)
    /\ \A j \in Querying :
         fetches[1 + Cardinality({q \in Querying : q <= j})].window
           = PolicyWindow(limited[j], yaml)
    /\ \A k \in 2..Len(fetches) :
         fetches[k].window \in yaml.data.windows.allowed \cup {yaml.data.windows.default}

C25_Witness ==
  /\ pc = "done"
  /\ Len(limited) = 1 /\ Len(fetches) = 2
  /\ WindowOption(limited[1]) = "90d"
  /\ "90d" \notin yaml.data.windows.allowed
  /\ fetches[2].window = yaml.data.windows.default

\* a query made for the window the placeholder names, allowed by the policy
C25_NamedWindowQueried ==
  /\ pc = "done"
  /\ Len(limited) = 1 /\ Len(fetches) = 2
  /\ WindowOption(limited[1]) = "7d"
  /\ fetches[2].window = "7d"

\* what the field resolver returns for processed placeholder j, which
\* selected an entity
FieldValue(j) ==
  IF limited[j].entity = "USER"
  THEN resolveUserField(limited[j].field,
                        Find(Rows(j), "userId", log[j].selected))
  ELSE resolveRepoField(limited[j].field,
                        selectRepo(SortByCommitsDesc(repoAggregates), limited[j].selector))

\* C26: a USER or REPO placeholder that selected an entity and whose field
\* is not hidden is replaced by the declared fallback text exactly when the
\* field resolver returns the empty string; a field whose value is 0 is
\* replaced by "0".
C26_FallbackIffEmptyField ==
  \A j \in Processed :
    (/\ limited[j].entity \in {"USER", "REPO"}
     /\ log[j].why \in {"value", "empty_field"}) =>
      /\ log[j].replaced
      /\ FieldValue(j) = "" <=> log[j].out = LiteralText(Fallback(limited[j]))
      /\ FieldValue(j) = "0" => log[j].out = <<Txt("0")>>

\* a streak of 0 is printed as "0"
C26_ZeroPrinted ==
  \E j \in Processed :
    /\ limited[j].entity = "USER" /\ limited[j].field = "streak"
    /\ log[j].why = "value"
    /\ FieldValue(j) = "0"
    /\ log[j].out = <<Txt("0")>>

PrivacyQueries == {k \in DOMAIN fetches : fetches[k].provider = "privacy.getOptedOutUsers"}

\* C27: a call loads the opted-out set at most once, as its first query and
\* so before any statistics query; the set is not assigned again while the
\* loop runs, and every USER placeholder of the call selects a user outside
\* that set, also when the stored privacy settings change during the call.
C27_OptedOutLoadedOnce ==
  /\ [](/\ Cardinality(PrivacyQueries) <= 1
        /\ fetches # << >> => PrivacyQueries = {1}
        /\ \A j \in Processed : IsUser(j) => log[j].selected \notin optedOutIds)
  /\ [][pc = "loop" => optedOutIds' = optedOutIds]_vars

C27_Witness ==
  /\ pc = "done"
  /\ Cardinality({j \in Processed : IsUser(j) /\ log[j].why = "value"}) >= 2
  /\ Cardinality(PrivacyQueries) = 1
  /\ userPrivacy # optedOutIds

AllOccurrences(text) ==
  LET idx == {j \in DOMAIN text : RegexMatches(text[j])}
      nth(k) == CHOOSE j \in idx : Cardinality({q \in idx : q < j}) = k - 1
  IN [k \in 1..Cardinality(idx) |-> PlaceholderMatch(text[nth(k)])]

\* C29: the scan position of the shared regex is 0 in every state in which
\* a parse can begin, and each pass got from the parser every occurrence of
\* its own text in document order, whatever calls completed before and
\* whether or not the pass of another organisation has parsed in between.
C29_ParseStartsAtZero ==
  /\ lastIndex = 0
  /\ (pc \in {"loop", "done"} /\ ModeAllows(yaml)) =>
       limited = Slice(AllOccurrences(readmeContent),
                       ReadmeConfig(yaml).allow.max_placeholders)
  /\ otherPc = "suspended" => otherMatches = AllOccurrences(OtherText)

C29_Witness ==
  /\ Len(returned) >= 1
  /\ pc = "loop"
  /\ Len(limited) >= 2
  /\ otherPc = "suspended"
  /\ Len(otherMatches) = 2

C23_RejectedConfigWritesNothing ==
  (yamlFile.kind = "schema_error" /\ yamlFile.failOnInvalidConfig) => writes = {}

\* C24: for each event type and delivery id an event handler is started at
\* most once, also when requests with the same id are handled concurrently.
C24_HandlerRunsAtMostOnce ==
  \A k \in DOMAIN handled : handled[k] <= 1

\* the same claim for requests whose earlier handler did not fail
C24_OnceUnlessFailed ==
  \A k \in DOMAIN handled :
    (\A r \in DOMAIN deliveries : Key(r) = k => deliveries[r].at # "failed") =>
      handled[k] <= 1

\* C30: whenever a streak row is stored, its longest streak is at least its
\* current streak and its current streak is at least 1; the same holds for
\* the record each updateStreak call is about to write or has returned.
C30_StreakOrdered ==
  /\ streaks.exists =>
       (streaks.longestStreak >= streaks.currentStreak /\ streaks.currentStreak >= 1)
  /\ \A c \in DOMAIN calls :
       calls[c].streakInfo.exists =>
         /\ calls[c].streakInfo.longestStreak >= calls[c].streakInfo.currentStreak
         /\ calls[c].streakInfo.currentStreak >= 1

\* a stored row whose streak restarted at 1 after it had reached two days
C30_Witness ==
  /\ streaks.exists
  /\ streaks.longestStreak >= 2
  /\ streaks.currentStreak = 1
  /\ streaks.lastContributionDate = clock
  /\ \A c \in DOMAIN calls : calls[c].at = "idle"

\* two calls read the same row and each is about to write its record
C30_ConcurrentWrites ==
  /\ streaks.exists
  /\ \E c \in DOMAIN calls : \E d \in DOMAIN calls :
       /\ c # d
       /\ calls[c].at = "upsert" /\ calls[d].at = "upsert"
       /\ calls[c].streakInfo.currentStreak >= 2
       /\ calls[d].streakInfo.currentStreak = 1

====
